---- MODULE Spec2Model ----
(***************************************************************************)
(* Model of main.py: a Telegram webhook that keeps one task Draft per chat *)
(* in the in-memory map DRAFTS and submits it to ClickUp.                  *)
(*                                                                         *)
(* Python strings are sequences of one-character strings, so that strip(), *)
(* lower(), startswith(), split(":", 1), int() and slicing are computed on *)
(* characters.  Python's None is the sequence None, whose single element   *)
(* is not a character and so differs from every string.                    *)
(***************************************************************************)
EXTENDS Integers, Sequences, FiniteSets, TLC

VARIABLES DRAFTS, LIST_ROUTING, last, inbox, waiting

vars == <<DRAFTS, LIST_ROUTING, last, inbox, waiting>>

(* ------------------------------ bounds -------------------------------- *)

\* updates delivered to the server and not yet handled, at most
MaxInbox == 2

\* length of the longest text a user sends (one more than the name limit,
\* plus a leading blank)
LongLen == 202
\* least value the clock reads, in seconds
StartClock == 1000
\* number of later values the clock may read
MaxTicks == 1

(* ------------------------- string literals ---------------------------- *)

None == <<"None">>
EmptyStr == << >>

S_start == <<"/", "s", "t", "a", "r", "t">>
S_new == <<"/", "n", "e", "w">>
S_task == <<"/", "t", "a", "s", "k">>
S_default == <<"d", "e", "f", "a", "u", "l", "t">>
S_Normal == <<"N", "o", "r", "m", "a", "l">>
S_Urgent == <<"U", "r", "g", "e", "n", "t">>
S_High == <<"H", "i", "g", "h">>
S_Low == <<"L", "o", "w">>
S_NoDueDate == <<"N", "o", " ", "d", "u", "e", " ", "d", "a", "t", "e">>
S_Today == <<"T", "o", "d", "a", "y">>
S_Tomorrow == <<"T", "o", "m", "o", "r", "r", "o", "w">>
S_ThisWeek == <<"T", "h", "i", "s", " ", "w", "e", "e", "k">>
S_today == <<"t", "o", "d", "a", "y">>
S_tomorrow == <<"t", "o", "m", "o", "r", "r", "o", "w">>
S_thisweek == <<"t", "h", "i", "s", "w", "e", "e", "k">>
S_none == <<"n", "o", "n", "e">>
S_noneTitle == <<"(", "n", "o", "n", "e", ")">>
S_ask_title == <<"a", "s", "k", "_", "t", "i", "t", "l", "e">>
S_set_project == <<"s", "e", "t", "_", "p", "r", "o", "j", "e", "c", "t", ":">>
S_set_priority == <<"s", "e", "t", "_", "p", "r", "i", "o", "r", "i", "t", "y", ":">>
S_set_due == <<"s", "e", "t", "_", "d", "u", "e", ":">>
S_confirm_create == <<"c", "o", "n", "f", "i", "r", "m", "_", "c", "r", "e", "a", "t", "e">>
S_cancel == <<"c", "a", "n", "c", "e", "l">>

(* ------------------------- string operations -------------------------- *)

Whitespace == {" ", "\t", "\n", "\r"}

\* first index at or after i that holds no whitespace, Len(s) + 1 if none
RECURSIVE SkipLeft(_, _)
SkipLeft(s, i) ==
  IF i > Len(s) \/ s[i] \notin Whitespace THEN i ELSE SkipLeft(s, i + 1)

\* last index at or before i that holds no whitespace, 0 if none
RECURSIVE SkipRight(_, _)
SkipRight(s, i) ==
  IF i < 1 \/ s[i] \notin Whitespace THEN i ELSE SkipRight(s, i - 1)

\* str.strip()
Strip(s) == SubSeq(s, SkipLeft(s, 1), SkipRight(s, Len(s)))

Upper == <<"A", "B", "C", "D", "E", "F", "G", "H", "I", "J", "K", "L", "M",
           "N", "O", "P", "Q", "R", "S", "T", "U", "V", "W", "X", "Y", "Z">>
LowerOf == <<"a", "b", "c", "d", "e", "f", "g", "h", "i", "j", "k", "l", "m",
             "n", "o", "p", "q", "r", "s", "t", "u", "v", "w", "x", "y", "z">>

\* str.lower()
Lower(s) ==
  [i \in 1..Len(s) |->
     IF \E u \in 1..26 : Upper[u] = s[i]
     THEN LowerOf[CHOOSE u \in 1..26 : Upper[u] = s[i]]
     ELSE s[i]]

\* str.startswith(p)
StartsWith(s, p) == Len(s) >= Len(p) /\ SubSeq(s, 1, Len(p)) = p

\* s.split(":", 1)[1], for s that holds a colon
AfterColon(s) ==
  LET first == CHOOSE i \in 1..Len(s) :
                 s[i] = ":" /\ \A j \in 1..(i - 1) : s[j] # ":"
  IN  SubSeq(s, first + 1, Len(s))

\* s[:n]
Prefix(s, n) == SubSeq(s, 1, IF Len(s) < n THEN Len(s) ELSE n)

Digits == <<"0", "1", "2", "3", "4", "5", "6", "7", "8", "9">>
IsDigit(ch) == \E d \in 1..10 : Digits[d] = ch
DigitVal(ch) == (CHOOSE d \in 1..10 : Digits[d] = ch) - 1

RECURSIVE DigitsVal(_)
DigitsVal(s) ==
  IF s = EmptyStr THEN 0
  ELSE 10 * DigitsVal(SubSeq(s, 1, Len(s) - 1)) + DigitVal(s[Len(s)])

\* int(s): ok is FALSE where Python raises ValueError
IntParse(s) ==
  LET t == Strip(s)
      signed == t # EmptyStr /\ t[1] \in {"+", "-"}
      body == IF signed THEN Tail(t) ELSE t
      good == body # EmptyStr /\ \A i \in 1..Len(body) : IsDigit(body[i])
  IN  IF ~good THEN [ok |-> FALSE, val |-> 0]
      ELSE [ok |-> TRUE,
            val |-> IF signed /\ t[1] = "-" THEN 0 - DigitsVal(body)
                    ELSE DigitsVal(body)]

\* str(n) inside an f-string
RECURSIVE IntStr(_)
IntStr(n) ==
  IF n < 0 THEN <<"-">> \o IntStr(0 - n)
  ELSE IF n < 10 THEN <<Digits[n + 1]>>
  ELSE IntStr(n \div 10) \o <<Digits[(n % 10) + 1]>>

(* --------------------------- configuration ---------------------------- *)

DEFAULT_LIST_ID == <<"9", "0", "0">>

\* LIST_ROUTING as the ordered dict json.loads gives, keys already lower-cased
RoutingTwo == << <<(<<"o", "p", "s">>), (<<"9", "0", "1">>)>>,
                 <<(<<"d", "e", "v">>), (<<"9", "0", "2">>)>> >>

RoutingKeys(table) == [i \in 1..Len(table) |-> table[i][1]]
InRouting(table, k) == \E i \in 1..Len(table) : table[i][1] = k
RoutingGet(table, k) == table[CHOOSE i \in 1..Len(table) : table[i][1] = k][2]

PRIORITIES == << <<S_Urgent, 1>>, <<S_High, 2>>, <<S_Normal, 3>>, <<S_Low, 4>> >>
DUE_CHOICES == << <<S_NoDueDate, None>>, <<S_Today, S_today>>,
                  <<S_Tomorrow, S_tomorrow>>, <<S_ThisWeek, S_thisweek>> >>

\* the bound of title[:200]
NameLimit == 200

(* --------------------------- pure functions --------------------------- *)

\* Optional[int]: the empty set is None, {n} is the integer n
NoInt == {}
SomeInt(n) == {n}

\* if project_key: (None and "" are both falsy)
Truthy(s) == s # None /\ s # EmptyStr

\* the key matched as stripped, without lower-casing it
resolve_list_id_NoLower(table, project_key) ==
  IF Truthy(project_key) /\ InRouting(table, Strip(project_key))
  THEN RoutingGet(table, Strip(project_key))
  ELSE DEFAULT_LIST_ID

resolve_list_id(table, project_key) ==
  IF Truthy(project_key) /\ InRouting(table, Lower(Strip(project_key)))
  THEN RoutingGet(table, Lower(Strip(project_key)))
  ELSE DEFAULT_LIST_ID

Day == 24 * 60 * 60

\* the due timestamp left in seconds
due_choice_to_epoch_ms_Seconds(choice, t) ==
  IF choice = None THEN NoInt
  ELSE IF choice = S_today THEN SomeInt(t + 8 * 60 * 60)
  ELSE IF choice = S_tomorrow THEN SomeInt(t + Day + 8 * 60 * 60)
  ELSE IF choice = S_thisweek THEN SomeInt(t + 3 * Day)
  ELSE NoInt

\* t is int(time.time()) read inside the call
due_choice_to_epoch_ms(choice, t) ==
  IF choice = None THEN NoInt
  ELSE IF choice = S_today THEN SomeInt((t + 8 * 60 * 60) * 1000)
  ELSE IF choice = S_tomorrow THEN SomeInt((t + Day + 8 * 60 * 60) * 1000)
  ELSE IF choice = S_thisweek THEN SomeInt((t + 3 * Day) * 1000)
  ELSE NoInt

\* the request without the test "if description:"
create_clickup_task_AlwaysDescription(list_id, name, description, due_date_ms, priority) ==
  [list_id |-> list_id,
   payload |-> ("name" :> name)
               @@ ("description" :> description)
               @@ (IF due_date_ms # NoInt
                   THEN ("due_date" :> due_date_ms) ELSE << >>)
               @@ ("priority" :> priority)]

\* the request create_clickup_task posts: the list of the url and the payload
\* keys that are present
create_clickup_task(list_id, name, description, due_date_ms, priority) ==
  [list_id |-> list_id,
   payload |-> ("name" :> name)
               @@ (IF description # EmptyStr
                   THEN ("description" :> description) ELSE << >>)
               @@ (IF due_date_ms # NoInt
                   THEN ("due_date" :> due_date_ms) ELSE << >>)
               @@ ("priority" :> priority)]

\* next((l for l, n in PRIORITIES if n == num), "Normal")
PriorityLabel(num) ==
  IF \E i \in 1..Len(PRIORITIES) : PRIORITIES[i][2] = num
  THEN PRIORITIES[CHOOSE i \in 1..Len(PRIORITIES) :
                    PRIORITIES[i][2] = num
                    /\ \A j \in 1..(i - 1) : PRIORITIES[j][2] # num][1]
  ELSE S_Normal

\* next((l for l, v in DUE_CHOICES if v == val), val)
DueLabel(val) ==
  IF \E i \in 1..Len(DUE_CHOICES) : DUE_CHOICES[i][2] = val
  THEN DUE_CHOICES[CHOOSE i \in 1..Len(DUE_CHOICES) :
                     DUE_CHOICES[i][2] = val
                     /\ \A j \in 1..(i - 1) : DUE_CHOICES[j][2] # val][1]
  ELSE val

(* ------------------------------ drafts -------------------------------- *)

\* a fresh draft that starts at the first priority of the list
FreshDraft_Urgent ==
  [title |-> EmptyStr, description |-> None, project |-> S_default,
   priority |-> 1, priority_label |-> S_Urgent,
   due |-> None, due_label |-> S_NoDueDate, awaiting_title |-> FALSE]

\* A draft dict.  The keys "description" and "awaiting_title" may be absent:
\* an absent description is None, an absent awaiting_title is FALSE.
FreshDraft ==
  [title |-> EmptyStr, description |-> None, project |-> S_default,
   priority |-> 3, priority_label |-> S_Normal,
   due |-> None, due_label |-> S_NoDueDate, awaiting_title |-> FALSE]

\* a seed that leaves the description out
SeedDraft_NoDescription(text) ==
  [title |-> text, description |-> None, project |-> S_default,
   priority |-> 3, priority_label |-> S_Normal,
   due |-> None, due_label |-> S_NoDueDate, awaiting_title |-> FALSE]

SeedDraft(text) ==
  [title |-> text, description |-> text, project |-> S_default,
   priority |-> 3, priority_label |-> S_Normal,
   due |-> None, due_label |-> S_NoDueDate, awaiting_title |-> FALSE]

\* DRAFTS[chat_id] = draft
Put(D, chat_id, draft) ==
  [c \in DOMAIN D \cup {chat_id} |-> IF c = chat_id THEN draft ELSE D[c]]

\* the pop that empties the whole store
Pop_Everyone(D, chat_id) == << >>

\* DRAFTS.pop(chat_id, None)
Pop(D, chat_id) == [c \in DOMAIN D \ {chat_id} |-> D[c]]

\* if chat_id not in DRAFTS: DRAFTS[chat_id] = {...}
EnsureDraft(D, chat_id) ==
  IF chat_id \notin DOMAIN D THEN Put(D, chat_id, FreshDraft) ELSE D

\* an edit-title press that does not start the wait
AskTitle_NoFlag(draft) == draft

AskTitle(draft) == [draft EXCEPT !.awaiting_title = TRUE]

SetProject(draft, proj) == [draft EXCEPT !.project = proj]

\* a priority press that also ends the wait for a title
SetPriority_ClearsAwaiting(draft, num) ==
  [draft EXCEPT !.priority = num, !.priority_label = PriorityLabel(num),
                !.awaiting_title = FALSE]

SetPriority(draft, num) ==
  [draft EXCEPT !.priority = num, !.priority_label = PriorityLabel(num)]

SetDue(draft, val) ==
  IF val = S_none
  THEN [draft EXCEPT !.due = None, !.due_label = S_NoDueDate]
  ELSE [draft EXCEPT !.due = val, !.due_label = DueLabel(val)]

\* a capture that forgets to end the wait
CaptureTitle_KeepsAwaiting(draft, text) == [draft EXCEPT !.title = text]

CaptureTitle(draft, text) ==
  [draft EXCEPT !.title = text, !.awaiting_title = FALSE]

\* draft.get("description", "")
DescriptionOf(draft) ==
  IF draft.description = None THEN EmptyStr ELSE draft.description

(* ------------------------------- menu --------------------------------- *)

Concat(p, s) == p \o s

menu_markup(D, table, chat_id) ==
  LET has == chat_id \in DOMAIN D
      keys == Prefix(RoutingKeys(table), 6)
      project_buttons ==
        [i \in 1..Len(keys) |-> Concat(S_set_project, keys[i])]
        \o <<Concat(S_set_project, S_default)>>
      priority_buttons ==
        [i \in 1..Len(PRIORITIES) |->
           Concat(S_set_priority, IntStr(PRIORITIES[i][2]))]
      due_buttons ==
        [i \in 1..Len(DUE_CHOICES) |->
           Concat(S_set_due, IF DUE_CHOICES[i][2] # None
                             THEN DUE_CHOICES[i][2] ELSE S_none)]
  IN  [text |-> [kind |-> "menu",
                 title |-> IF has THEN D[chat_id].title ELSE S_noneTitle,
                 project |-> IF has THEN D[chat_id].project ELSE S_default,
                 priority |-> IF has THEN D[chat_id].priority_label
                              ELSE S_Normal,
                 due |-> IF has THEN D[chat_id].due_label ELSE S_NoDueDate],
       reply_markup |-> <<S_ask_title>> \o project_buttons
                        \o priority_buttons \o due_buttons
                        \o <<S_confirm_create, S_cancel>>]

\* a message text without buttons
Plain(kind) == [text |-> [kind |-> kind], reply_markup |-> None]

(* --------------------------- outbound calls --------------------------- *)

\* what one requests.post can do: a 2xx response, an error status, a timeout,
\* a transport error
Outcomes == {"ok", "status", "timeout", "transport"}

\* requests.post raises on a timeout or a transport error; an error status is
\* a response like any other
PostRaises(o) == o \in {"timeout", "transport"}

\* create_clickup_task without raise_for_status
CreateRaises_NoStatusCheck(o) == PostRaises(o)

\* create_clickup_task also raises on an error status (raise_for_status)
CreateRaises(o) == PostRaises(o) \/ o = "status"

Req(api, body, outcome) == [api |-> api, body |-> body, outcome |-> outcome]

answer_callback(outcome) == Req("answerCallbackQuery", None, outcome)

edit_message(chat_id, msg, outcome) ==
  Req("editMessageText", [chat_id |-> chat_id, msg |-> msg], outcome)

send_message(chat_id, msg, outcome) ==
  Req("sendMessage", [chat_id |-> chat_id, msg |-> msg], outcome)

(* ------------------------------- inputs ------------------------------- *)

Chats == {7}

LongText == [i \in 1..LongLen |-> IF i = 1 THEN " " ELSE "b"]

S_FixLoginBug == <<"F", "i", "x", " ", "l", "o", "g", "i", "n", " ", "b", "u", "g">>

\* a title sent with blanks around it
PaddedTitle == <<" ">> \o S_FixLoginBug \o <<" ">>

\* texts of inbound messages: the start commands, a blank text, a title
RawTexts == {S_start, S_new, S_task, <<" ">>, PaddedTitle}

\* action tokens of inbound button presses: tokens the menu emits, and
\* malformed ones (unknown kind, priority out of range, priority that is no
\* number, unknown due choice)
Tokens ==
  {S_ask_title, S_confirm_create, S_cancel, <<"b", "o", "g", "u", "s">>}
  \cup {Concat(S_set_project, v) : v \in {S_default, <<"o", "p", "s">>}}
  \cup {Concat(S_set_priority, v) : v \in {<<"2">>, <<"7">>, <<"x">>}}
  \cup {Concat(S_set_due, v) : v \in {S_none, S_tomorrow,
                                       <<"s", "o", "o", "n">>}}

(* ------------------------------- state -------------------------------- *)

NoUpdate == [type |-> "none", chat_id |-> 0, content |-> None]

Init ==
  /\ DRAFTS = << >>
  /\ LIST_ROUTING = RoutingTwo
  /\ last = [update |-> NoUpdate, out |-> << >>, clock |-> NoInt,
             status |-> "none", had |-> FALSE]
  /\ inbox = << >>
  /\ waiting = << >>

\* the updates q without the first one equal to update, q if there is none
Without(q, update) ==
  IF \E i \in 1..Len(q) : q[i] = update
  THEN LET first == CHOOSE i \in 1..Len(q) :
                      q[i] = update /\ \A j \in 1..(i - 1) : q[j] # update
       IN  SubSeq(q, 1, first - 1) \o SubSeq(q, first + 1, Len(q))
  ELSE q

\* the handler has returned (status "ok": {"ok": True}) or an exception has
\* left it (status "error"); its update is no longer waiting to be handled
FinishAt(D, update, out, clock, status) ==
  /\ DRAFTS' = D
  /\ last' = [update |-> update, out |-> out, clock |-> clock,
              status |-> status, had |-> update.chat_id \in DOMAIN DRAFTS]
  /\ inbox' = Without(inbox, update)
  /\ UNCHANGED <<LIST_ROUTING, waiting>>

\* the same for a handler that has not read the clock
Finish(D, update, out, status) == FinishAt(D, update, out, NoInt, status)

\* the status after a handler's final messaging call
After(o) == IF PostRaises(o) THEN "error" ELSE "ok"

\* DRAFTS once create_clickup_task has returned and the confirmation is sent
Created(D, chat_id) == Pop(D, chat_id)

(* ------------------------------ handlers ------------------------------ *)

\* if not title:
EmptyTitle_Never(title) == FALSE

EmptyTitle(title) == title = EmptyStr

\* the values time.time() can return
Times == StartClock..(StartClock + MaxTicks)

\* telegram_webhook on a confirm_create press, after the acknowledgement r0;
\* the clock is read only for a due choice
ConfirmCreate(D1, chat_id, update, r0) ==
  LET draft == D1[chat_id]
      title == Strip(draft.title)
      list_id == resolve_list_id(LIST_ROUTING,
                   IF draft.project = S_default THEN None ELSE draft.project)
      prio == draft.priority
  IN  IF EmptyTitle(title)
      THEN \E e \in Outcomes :
             Finish(D1, update,
                    r0 \o <<edit_message(chat_id, Plain("empty_title"), e)>>,
                    After(e))
      ELSE \E t \in (IF draft.due = None THEN {StartClock} ELSE Times),
              c \in Outcomes :
             LET due_ms == due_choice_to_epoch_ms(draft.due, t)
                 clock == IF draft.due = None THEN NoInt ELSE SomeInt(t)
                 call == create_clickup_task(list_id, Prefix(title, NameLimit),
                                             DescriptionOf(draft), due_ms, prio)
                 r1 == r0 \o <<Req("createTask", call, c)>>
             IN  IF ~CreateRaises(c)
                 THEN \E e \in Outcomes :
                        LET r2 == r1 \o <<edit_message(chat_id,
                                            Plain("created"), e)>>
                        IN  IF ~PostRaises(e)
                            THEN FinishAt(Created(D1, chat_id), update, r2,
                                          clock, "ok")
                            ELSE \E f \in Outcomes :
                                   FinishAt(D1, update,
                                            r2 \o <<edit_message(chat_id,
                                                      Plain("failed"), f)>>,
                                            clock, After(f))
                 ELSE \E f \in Outcomes :
                        FinishAt(D1, update,
                                 r1 \o <<edit_message(chat_id,
                                           Plain("failed"), f)>>,
                                 clock, After(f))

CallbackQuery(chat_id, data) ==
  LET update == [type |-> "callback_query", chat_id |-> chat_id,
                 content |-> data]
  IN  \E a \in Outcomes :
        LET r0 == <<answer_callback(a)>>
            D1 == EnsureDraft(DRAFTS, chat_id)
            draft == D1[chat_id]
            Menu(D, e) == edit_message(chat_id,
                            menu_markup(D, LIST_ROUTING, chat_id), e)
        IN  IF PostRaises(a) THEN Finish(DRAFTS, update, r0, "error")
            ELSE IF data = S_ask_title
            THEN \E e \in Outcomes :
                   Finish(Put(D1, chat_id, AskTitle(draft)), update,
                          r0 \o <<edit_message(chat_id, Plain("ask_title"), e)>>,
                          After(e))
            ELSE IF StartsWith(data, S_set_project)
            THEN \E e \in Outcomes :
                   LET D2 == Put(D1, chat_id,
                                 SetProject(draft, AfterColon(data)))
                   IN  Finish(D2, update, r0 \o <<Menu(D2, e)>>, After(e))
            ELSE IF StartsWith(data, S_set_priority)
            THEN LET num == IntParse(AfterColon(data))
                 IN  IF ~num.ok THEN Finish(D1, update, r0, "error")
                     ELSE \E e \in Outcomes :
                            LET D2 == Put(D1, chat_id,
                                          SetPriority(draft, num.val))
                            IN  Finish(D2, update, r0 \o <<Menu(D2, e)>>,
                                       After(e))
            ELSE IF StartsWith(data, S_set_due)
            THEN \E e \in Outcomes :
                   LET D2 == Put(D1, chat_id, SetDue(draft, AfterColon(data)))
                   IN  Finish(D2, update, r0 \o <<Menu(D2, e)>>, After(e))
            ELSE IF data = S_confirm_create
            THEN ConfirmCreate(D1, chat_id, update, r0)
            ELSE IF data = S_cancel
            THEN \E e \in Outcomes :
                   Finish(Pop(D1, chat_id), update,
                          r0 \o <<edit_message(chat_id, Plain("cancelled"), e)>>,
                          After(e))
            ELSE Finish(D1, update, r0, "ok")

StartCommands == {S_start, S_new, S_task}

\* telegram_webhook on an update with a message or an edited_message
TextMessage(chat_id, raw) ==
  LET update == [type |-> "message", chat_id |-> chat_id, content |-> raw]
      text == Strip(IF Truthy(raw) THEN raw ELSE EmptyStr)
      D2 == IF text \in StartCommands
            THEN Put(DRAFTS, chat_id, FreshDraft)
            ELSE IF chat_id \in DOMAIN DRAFTS /\ DRAFTS[chat_id].awaiting_title
            THEN Put(DRAFTS, chat_id, CaptureTitle(DRAFTS[chat_id], text))
            ELSE Put(DRAFTS, chat_id, SeedDraft(text))
  IN  \E s \in Outcomes :
        Finish(D2, update,
               <<send_message(chat_id,
                              menu_markup(D2, LIST_ROUTING, chat_id), s)>>,
               After(s))

\* telegram_webhook on an update with neither
OtherUpdate ==
  Finish(DRAFTS, [type |-> "other", chat_id |-> 0, content |-> None],
         << >>, "ok")

Next ==
  \/ \E chat_id \in Chats, data \in Tokens : CallbackQuery(chat_id, data)
  \/ \E chat_id \in Chats, raw \in RawTexts : TextMessage(chat_id, raw)
  \/ OtherUpdate

Spec == Init /\ [][Next]_vars

\* The same handlers on long titles: texts longer than the name limit, and
\* the presses of a submission.
LongTexts == {S_new, S_FixLoginBug, LongText}

LongTokens ==
  {S_ask_title, S_confirm_create,
   Concat(S_set_project, <<"o", "p", "s">>),
   Concat(S_set_priority, <<"2">>),
   Concat(S_set_due, S_tomorrow), Concat(S_set_due, S_thisweek)}

NextLong ==
  \/ \E chat_id \in Chats, data \in LongTokens : CallbackQuery(chat_id, data)
  \/ \E chat_id \in Chats, raw \in LongTexts : TextMessage(chat_id, raw)
  \/ OtherUpdate

SpecLong == Init /\ [][NextLong]_vars

\* The same handlers on the four due choices of the menu.
DueTexts == {S_new, S_FixLoginBug}

DueTokens ==
  {S_confirm_create}
  \cup {Concat(S_set_due, v) : v \in {S_none, S_today, S_tomorrow, S_thisweek}}

NextDue ==
  \/ \E chat_id \in Chats, data \in DueTokens : CallbackQuery(chat_id, data)
  \/ \E chat_id \in Chats, raw \in DueTexts : TextMessage(chat_id, raw)
  \/ OtherUpdate

SpecDue == Init /\ [][NextDue]_vars

\* The same handlers on the updates of two conversations, in any order.
TwoChats == {7, 8}

TwoTexts == {S_new, S_FixLoginBug}

TwoTokens ==
  {S_ask_title, S_confirm_create, S_cancel, Concat(S_set_priority, <<"2">>)}

NextTwo ==
  \/ \E chat_id \in TwoChats, data \in TwoTokens : CallbackQuery(chat_id, data)
  \/ \E chat_id \in TwoChats, raw \in TwoTexts : TextMessage(chat_id, raw)
  \/ OtherUpdate

SpecTwo == Init /\ [][NextTwo]_vars

\* resolve_list_id on its own: the routing table is any of a few that
\* LIST_ROUTING_JSON can give (none, two plain keys, keys that keep the blank
\* or the emptiness they were configured with: line 17 lower-cases a key and
\* leaves the rest of it alone), the project key any of a family of keys.
RoutingOdd == << <<(<<" ", "o", "p", "s">>), (<<"9", "0", "3">>)>>,
                 <<EmptyStr, (<<"9", "0", "4">>)>> >>

ResolveTables == {<< >>, RoutingTwo, RoutingOdd}

\* s with its first character upper-cased
Capitalised(s) ==
  IF s = EmptyStr \/ ~(\E u \in 1..26 : LowerOf[u] = s[1])
  THEN s
  ELSE <<Upper[CHOOSE u \in 1..26 : LowerOf[u] = s[1]]>> \o Tail(s)

\* s with every character upper-cased
AllUpper(s) ==
  [i \in 1..Len(s) |->
     IF \E u \in 1..26 : LowerOf[u] = s[i]
     THEN Upper[CHOOSE u \in 1..26 : LowerOf[u] = s[i]]
     ELSE s[i]]

ResolveKeys ==
  {None}
  \cup {l \o w \o r :
          l \in {EmptyStr, <<" ">>},
          r \in {EmptyStr, <<" ">>, <<"\n">>},
          w \in UNION {{b, Capitalised(b), AllUpper(b)} :
                         b \in {EmptyStr, <<"o", "p", "s">>, <<"d", "e", "v">>,
                                <<"q", "a">>, S_default}}}

NoCall == [called |-> FALSE, project_key |-> None, list_id |-> None]

InitResolve ==
  /\ DRAFTS = << >>
  /\ LIST_ROUTING \in ResolveTables
  /\ last = NoCall
  /\ inbox = << >>
  /\ waiting = << >>

Resolve(project_key) ==
  /\ last' = [called |-> TRUE, project_key |-> project_key,
              list_id |-> resolve_list_id(LIST_ROUTING, project_key)]
  /\ UNCHANGED <<DRAFTS, LIST_ROUTING, inbox, waiting>>

NextResolve == \E project_key \in ResolveKeys : Resolve(project_key)

SpecResolve == InitResolve /\ [][NextResolve]_vars

\* The same handlers under several routing tables, on presses of buttons
\* that the menu of the conversation carries.
RoutingDefault == << <<S_default, (<<"9", "0", "5">>)>> >>

MenuTables == {RoutingTwo, RoutingOdd, RoutingDefault}

MenuTexts == {S_FixLoginBug}

InitMenu ==
  /\ DRAFTS = << >>
  /\ LIST_ROUTING \in MenuTables
  /\ last = [update |-> NoUpdate, out |-> << >>, clock |-> NoInt,
             status |-> "none", had |-> FALSE]
  /\ inbox = << >>
  /\ waiting = << >>

\* the buttons pressed: every project button, one priority button, one due
\* button, and confirm-create
MenuTokens(chat_id) ==
  LET markup == menu_markup(DRAFTS, LIST_ROUTING, chat_id).reply_markup
  IN  {markup[i] : i \in {j \in 1..Len(markup) :
                            \/ StartsWith(markup[j], S_set_project)
                            \/ markup[j] \in {S_confirm_create,
                                               Concat(S_set_priority, <<"1">>),
                                               Concat(S_set_due, S_today)}}}

NextMenu ==
  \/ \E chat_id \in Chats :
       \E data \in MenuTokens(chat_id) : CallbackQuery(chat_id, data)
  \/ \E chat_id \in Chats, raw \in MenuTexts : TextMessage(chat_id, raw)
  \/ OtherUpdate

SpecMenu == InitMenu /\ [][NextMenu]_vars

\* Updates of one conversation that reach the server while earlier ones are
\* still being handled.  telegram_webhook is a coroutine of the one event
\* loop; after "await req.json()" it never awaits again, and requests.post
\* is a synchronous call, so the handler that waits for the task API holds
\* the loop's thread until the call returns or its 30 s timeout ends it.
\* The confirm-create handler is taken in two steps, before and after that
\* call; inbox holds the delivered updates whose handlers have not run,
\* waiting the handlers that are inside the call.

\* a handler inside requests.post keeps every other handler from running
BlocksLoop_Never == FALSE

BlocksLoop == TRUE

LoopFree == waiting = << >> \/ ~BlocksLoop

ConcUpdates ==
  {[type |-> "message", chat_id |-> 7, content |-> S_FixLoginBug],
   [type |-> "message", chat_id |-> 7, content |-> S_new],
   [type |-> "callback_query", chat_id |-> 7, content |-> S_confirm_create]}

\* the request of an update reaches the server
Deliver(update) ==
  /\ Len(inbox) < MaxInbox
  /\ inbox' = Append(inbox, update)
  /\ UNCHANGED <<DRAFTS, LIST_ROUTING, last, waiting>>

\* telegram_webhook on a delivered text message
HandleText(i) ==
  /\ LoopFree
  /\ inbox[i].type = "message"
  /\ TextMessage(inbox[i].chat_id, inbox[i].content)

\* telegram_webhook on a delivered confirm_create press, up to the moment
\* create_clickup_task has sent its request
ConfirmSend(i) ==
  LET update == inbox[i]
      chat_id == update.chat_id
  IN  /\ LoopFree
      /\ update.type = "callback_query"
      /\ update.content = S_confirm_create
      /\ \E a \in Outcomes :
           LET r0 == <<answer_callback(a)>>
               D1 == EnsureDraft(DRAFTS, chat_id)
               draft == D1[chat_id]
               title == Strip(draft.title)
               list_id == resolve_list_id(LIST_ROUTING,
                            IF draft.project = S_default THEN None
                            ELSE draft.project)
           IN  IF PostRaises(a) THEN Finish(DRAFTS, update, r0, "error")
               ELSE IF EmptyTitle(title)
               THEN \E e \in Outcomes :
                      Finish(D1, update,
                             r0 \o <<edit_message(chat_id,
                                       Plain("empty_title"), e)>>,
                             After(e))
               ELSE \E t \in (IF draft.due = None THEN {StartClock}
                              ELSE Times) :
                      /\ DRAFTS' = D1
                      /\ inbox' = Without(inbox, update)
                      /\ waiting' =
                           Append(waiting,
                                  [update |-> update, draft |-> draft,
                                   out |-> r0,
                                   call |-> create_clickup_task(list_id,
                                              Prefix(title, NameLimit),
                                              DescriptionOf(draft),
                                              due_choice_to_epoch_ms(draft.due,
                                                                     t),
                                              draft.priority),
                                   clock |-> IF draft.due = None THEN NoInt
                                             ELSE SomeInt(t),
                                   had |-> chat_id \in DOMAIN DRAFTS])
                      /\ UNCHANGED <<LIST_ROUTING, last>>

\* the rest of that handler, from the return of requests.post on
ConfirmReturn(k) ==
  LET h == waiting[k]
      chat_id == h.update.chat_id
      Done(D, out, status) ==
        /\ DRAFTS' = D
        /\ last' = [update |-> h.update, out |-> out, clock |-> h.clock,
                    status |-> status, had |-> h.had]
        /\ waiting' = SubSeq(waiting, 1, k - 1)
                      \o SubSeq(waiting, k + 1, Len(waiting))
        /\ UNCHANGED <<LIST_ROUTING, inbox>>
  IN  \E c \in Outcomes :
        LET r1 == h.out \o <<Req("createTask", h.call, c)>>
        IN  IF ~CreateRaises(c)
            THEN \E e \in Outcomes :
                   LET r2 == r1 \o <<edit_message(chat_id,
                                       Plain("created"), e)>>
                   IN  IF ~PostRaises(e)
                       THEN Done(Created(DRAFTS, chat_id), r2, "ok")
                       ELSE \E f \in Outcomes :
                              Done(DRAFTS,
                                   r2 \o <<edit_message(chat_id,
                                             Plain("failed"), f)>>,
                                   After(f))
            ELSE \E f \in Outcomes :
                   Done(DRAFTS,
                        r1 \o <<edit_message(chat_id, Plain("failed"), f)>>,
                        After(f))

\* the steps of the event loop
Handle ==
  \/ \E i \in 1..Len(inbox) : HandleText(i)
  \/ \E i \in 1..Len(inbox) : ConfirmSend(i)
  \/ \E k \in 1..Len(waiting) : ConfirmReturn(k)

NextConc ==
  \/ \E update \in ConcUpdates : Deliver(update)
  \/ Handle

\* the loop runs a handler that is ready, and a call returns in the end
SpecConc == Init /\ [][NextConc]_vars /\ WF_vars(Handle)


(* ------------------------- reading the record ------------------------- *)

\* the last handled update is a press of the button with this token
Pressed(token) ==
  last.update.type = "callback_query" /\ last.update.content = token

\* the last handled update is a text message
Texted == last.update.type = "message"

\* positions of the create-task calls of the last handler
CreateCalls(out) == {i \in 1..Len(out) : out[i].api = "createTask"}

\* some messaging call of the last handler raised
MessagingRaised(out) ==
  \E i \in 1..Len(out) : out[i].api # "createTask" /\ PostRaises(out[i].outcome)

DueValues == {None, S_today, S_tomorrow, S_thisweek}

MalformedTokens ==
  {<<"b", "o", "g", "u", "s">>,
   Concat(S_set_priority, <<"7">>), Concat(S_set_priority, <<"x">>),
   Concat(S_set_due, <<"s", "o", "o", "n">>)}

(* ------------------------------- claims ------------------------------- *)

\* C1: whenever the create call of a confirm-create press returned success,
\* the conversation has no Draft once the handler has finished, whatever the
\* messaging calls did.
C1_NoDraftAfterCreate ==
  (Pressed(S_confirm_create)
   /\ \E i \in CreateCalls(last.out) : last.out[i].outcome = "ok")
  => last.update.chat_id \notin DOMAIN DRAFTS

\* C2: whatever the update and whatever the outbound calls do, the handler
\* returns its OK acknowledgement: no exception leaves it.
C2_HandlerAlwaysAcknowledges == last.status # "error"

\* C3: a press with an unrecognized or malformed token is handled without a
\* crash and is a no-op or sets the field to a valid value.  Stated for the
\* presses whose messaging calls all went through, so that a failure is the
\* token's doing.
C3_MalformedTokenHarmless ==
  (last.update.type = "callback_query"
   /\ last.update.content \in MalformedTokens
   /\ ~MessagingRaised(last.out))
  => /\ last.status = "ok"
     /\ last.update.chat_id \in DOMAIN DRAFTS
          => /\ DRAFTS[last.update.chat_id].priority \in {1, 2, 3, 4}
             /\ DRAFTS[last.update.chat_id].due \in DueValues

\* C4: in every reachable state every Draft's priority rank is one of 1..4 and
\* its due choice is one of None, today, tomorrow, thisweek.
C4_FieldsInRange ==
  \A c \in DOMAIN DRAFTS :
    DRAFTS[c].priority \in {1, 2, 3, 4} /\ DRAFTS[c].due \in DueValues

\* C5: a confirm-create press on a Draft whose title is empty or blank makes
\* no create-task call and leaves the Draft as it was, awaiting flag included.
C5_EmptyTitleConfirm ==
  [][(/\ last'.update.type = "callback_query"
      /\ last'.update.content = S_confirm_create
      /\ last'.update.chat_id \in DOMAIN DRAFTS
      /\ Strip(DRAFTS[last'.update.chat_id].title) = EmptyStr)
     => /\ CreateCalls(last'.out) = {}
        /\ DRAFTS' = DRAFTS]_vars

\* C5 witness: the empty-title notice was sent for a Draft that waits for its
\* title and has a priority that is not the default.
C5_Witness ==
  /\ Pressed(S_confirm_create)
  /\ \E i \in 1..Len(last.out) :
       /\ last.out[i].api = "editMessageText"
       /\ last.out[i].body.msg = Plain("empty_title")
  /\ last.update.chat_id \in DOMAIN DRAFTS
  /\ DRAFTS[last.update.chat_id].awaiting_title
  /\ DRAFTS[last.update.chat_id].priority = 2

\* C6: when the create call of a confirm-create press fails (exception,
\* timeout, error status), the Draft exists afterwards with every field as
\* before the press.
C6_FailedCreateKeepsDraft ==
  [][(/\ last'.update.type = "callback_query"
      /\ last'.update.content = S_confirm_create
      /\ \E i \in CreateCalls(last'.out) : last'.out[i].outcome # "ok")
     => /\ last'.update.chat_id \in DOMAIN DRAFTS
        /\ last'.update.chat_id \in DOMAIN DRAFTS'
        /\ DRAFTS'[last'.update.chat_id] = DRAFTS[last'.update.chat_id]]_vars

\* C6 witness: a create call answered with an error status, and the Draft
\* still holds the title, priority and due choice set before.
C6_Witness ==
  /\ Pressed(S_confirm_create)
  /\ \E i \in CreateCalls(last.out) : last.out[i].outcome = "status"
  /\ last.update.chat_id \in DOMAIN DRAFTS
  /\ DRAFTS[last.update.chat_id].title = S_FixLoginBug
  /\ DRAFTS[last.update.chat_id].priority = 2
  /\ DRAFTS[last.update.chat_id].due = S_tomorrow

\* C7: after a start command (/start, /new, /task) is handled, whatever the
\* conversation's state was, the Draft exists with title "", priority Normal
\* (3), due None, project default, no description, and does not wait for a
\* title.
C7_StartResets ==
  (Texted /\ Strip(last.update.content) \in {S_start, S_new, S_task})
  => /\ last.update.chat_id \in DOMAIN DRAFTS
     /\ DRAFTS[last.update.chat_id] =
          [title |-> << >>, description |-> None,
           project |-> <<"d", "e", "f", "a", "u", "l", "t">>,
           priority |-> 3, priority_label |-> <<"N", "o", "r", "m", "a", "l">>,
           due |-> None,
           due_label |-> <<"N", "o", " ", "d", "u", "e", " ", "d", "a", "t", "e">>,
           awaiting_title |-> FALSE]

\* C7 witness: /task was handled and its Draft is there although sending the
\* menu timed out.
C7_Witness ==
  /\ Texted
  /\ last.update.content = S_task
  /\ last.out[1].outcome = "timeout"
  /\ last.update.chat_id \in DOMAIN DRAFTS
  /\ DRAFTS[last.update.chat_id].title = EmptyStr

\* the due timestamp of the due policy, for the clock value t
PolicyDue(choice, t) ==
  IF choice = S_today THEN {(t + 28800) * 1000}
  ELSE IF choice = S_tomorrow THEN {(t + 86400 + 28800) * 1000}
  ELSE IF choice = S_thisweek THEN {(t + 259200) * 1000}
  ELSE {}

\* the create-task request that carries the values of draft d, for the clock
\* value set clock
Carries(req, d, clock) ==
  LET T == Strip(d.title)
      n == IF Len(T) < 200 THEN Len(T) ELSE 200
      due == IF clock = {} THEN {} ELSE PolicyDue(d.due, CHOOSE t \in clock : TRUE)
  IN  /\ req.list_id = resolve_list_id(LIST_ROUTING, d.project)
      /\ Len(req.payload.name) = n
      /\ \A i \in 1..n : req.payload.name[i] = T[i]
      /\ req.payload.priority = d.priority
      /\ IF d.due \in {S_today, S_tomorrow, S_thisweek}
         THEN "due_date" \in DOMAIN req.payload /\ req.payload.due_date = due
         ELSE "due_date" \notin DOMAIN req.payload
      /\ IF d.description \in {None, EmptyStr}
         THEN "description" \notin DOMAIN req.payload
         ELSE req.payload.description = d.description
      /\ DOMAIN req.payload \subseteq
           {"name", "priority", "due_date", "description"}

\* the Draft that /new, High, Tomorrow and the title "Fix login bug" leave
ScenarioDraft ==
  [title |-> S_FixLoginBug, description |-> None, project |-> S_default,
   priority |-> 2, priority_label |-> S_High,
   due |-> S_tomorrow, due_label |-> S_Tomorrow, awaiting_title |-> FALSE]

\* C8: a confirm-create press on a Draft with a non-empty trimmed title makes
\* one create-task call (none if the acknowledgement raised), and the call
\* carries the Draft's values: list id = resolve(project), name = trimmed
\* title cut to 200 characters, priority = rank, due = due policy at the
\* clock read (absent for None), description or absent.  For /new, High,
\* Tomorrow, "Fix login bug" it carries that name, priority 2, due
\* (clock + 32h) in ms, no description.
C8_CreateCarriesDraft ==
  [][(/\ last'.update.type = "callback_query"
      /\ last'.update.content = S_confirm_create
      /\ last'.update.chat_id \in DOMAIN DRAFTS
      /\ Strip(DRAFTS[last'.update.chat_id].title) # EmptyStr)
     => LET d == DRAFTS[last'.update.chat_id]
            out == last'.out
            calls == CreateCalls(out)
        IN  /\ Cardinality(calls) <= 1
            /\ ~PostRaises(out[1].outcome) => Cardinality(calls) = 1
            /\ \A i \in calls :
                 /\ Carries(out[i].body, d, last'.clock)
                 /\ d = ScenarioDraft
                    => /\ out[i].body.list_id = DEFAULT_LIST_ID
                       /\ out[i].body.payload =
                            [name |-> S_FixLoginBug, priority |-> 2,
                             due_date |->
                               {((CHOOSE t \in last'.clock : TRUE) + 115200)
                                * 1000}]]_vars

\* C8 witness: a create call for a title longer than 200 characters, with a
\* description, priority High, a due date and the list of project ops.
C8_Witness ==
  /\ Pressed(S_confirm_create)
  /\ \E i \in CreateCalls(last.out) :
       /\ Len(last.out[i].body.payload.name) = 200
       /\ "description" \in DOMAIN last.out[i].body.payload
       /\ "due_date" \in DOMAIN last.out[i].body.payload
       /\ last.out[i].body.payload.priority = 2
       /\ last.out[i].body.list_id = <<"9", "0", "1">>

\* C9: a set_project, set_priority or set_due press on an existing Draft
\* changes the targeted field (with its display label) and no other field of
\* that Draft: title, description and the awaiting flag stay.  Once the press
\* has got as far as redrawing the menu, the field holds the token's value.
C9_SetChangesOneField ==
  [][(/\ last'.update.type = "callback_query"
      /\ last'.update.chat_id \in DOMAIN DRAFTS)
     => LET c == last'.update.chat_id
            data == last'.update.content
            pre == DRAFTS[c]
            post == DRAFTS'[c]
            redrawn == Len(last'.out) = 2
        IN  /\ StartsWith(data, S_set_project)
               => /\ c \in DOMAIN DRAFTS'
                  /\ post = [pre EXCEPT !.project = post.project]
                  /\ redrawn => post.project = AfterColon(data)
            /\ StartsWith(data, S_set_priority)
               => /\ c \in DOMAIN DRAFTS'
                  /\ post = [pre EXCEPT !.priority = post.priority,
                                        !.priority_label = post.priority_label]
                  /\ redrawn => IntStr(post.priority) = AfterColon(data)
            /\ StartsWith(data, S_set_due)
               => /\ c \in DOMAIN DRAFTS'
                  /\ post = [pre EXCEPT !.due = post.due,
                                        !.due_label = post.due_label]
                  /\ redrawn
                     => post.due = IF AfterColon(data) = S_none THEN None
                                   ELSE AfterColon(data)]_vars

\* C9 witness: a priority press has set High on a Draft that has a title and
\* a description and still waits for a new title.
C9_Witness ==
  /\ Pressed(Concat(S_set_priority, <<"2">>))
  /\ Len(last.out) = 2
  /\ last.update.chat_id \in DOMAIN DRAFTS
  /\ DRAFTS[last.update.chat_id].priority = 2
  /\ DRAFTS[last.update.chat_id].awaiting_title
  /\ DRAFTS[last.update.chat_id].title = S_FixLoginBug
  /\ DRAFTS[last.update.chat_id].description = S_FixLoginBug

\* the text message handled in this step seeds a Draft: it is no start
\* command and the conversation does not wait for a title
Seeds ==
  /\ last'.update.type = "message"
  /\ Strip(last'.update.content) \notin {S_start, S_new, S_task}
  /\ ~(/\ last'.update.chat_id \in DOMAIN DRAFTS
       /\ DRAFTS[last'.update.chat_id].awaiting_title)

\* the Draft a seeding text leaves, for the title and description it stores
Seeded(text) ==
  [title |-> text, description |-> text,
   project |-> <<"d", "e", "f", "a", "u", "l", "t">>,
   priority |-> 3, priority_label |-> <<"N", "o", "r", "m", "a", "l">>,
   due |-> None,
   due_label |-> <<"N", "o", " ", "d", "u", "e", " ", "d", "a", "t", "e">>,
   awaiting_title |-> FALSE]

\* the create calls of this step carry Normal priority, no due date and the
\* default list
SubmitsDefaults ==
  \A i \in CreateCalls(last'.out) :
    /\ last'.out[i].body.payload.priority = 3
    /\ "due_date" \notin DOMAIN last'.out[i].body.payload
    /\ last'.out[i].body.list_id = DEFAULT_LIST_ID

\* C10 as stated: a text that is no start command, received while not waiting
\* for a title, replaces the Draft by one whose title and description equal the
\* message text, with default project, priority and due and no awaiting flag;
\* Create pressed right after submits with Normal priority, no due date and
\* the default list.
C10_SeedEqualsText ==
  [][/\ Seeds
        => /\ last'.update.chat_id \in DOMAIN DRAFTS'
           /\ DRAFTS'[last'.update.chat_id] = Seeded(last'.update.content)
     /\ (/\ Texted
         /\ last.update.chat_id \in DOMAIN DRAFTS
         /\ DRAFTS[last.update.chat_id] = Seeded(last.update.content)
         /\ last'.update = [type |-> "callback_query",
                            chat_id |-> last.update.chat_id,
                            content |-> S_confirm_create]
         /\ ~PostRaises(last'.out[1].outcome))
        => Cardinality(CreateCalls(last'.out)) = 1 /\ SubmitsDefaults]_vars

\* C10 amended: the title and description equal the message text with the
\* whitespace at both ends removed; Create pressed right after makes no create
\* call when that text is empty, and otherwise one call (none if the
\* acknowledgement raised) with Normal priority, no due date and the default
\* list.
C10_SeedEqualsStrippedText ==
  [][/\ Seeds
        => /\ last'.update.chat_id \in DOMAIN DRAFTS'
           /\ DRAFTS'[last'.update.chat_id]
                = Seeded(Strip(last'.update.content))
     /\ (/\ Texted
         /\ last.update.chat_id \in DOMAIN DRAFTS
         /\ DRAFTS[last.update.chat_id] = Seeded(Strip(last.update.content))
         /\ last'.update = [type |-> "callback_query",
                            chat_id |-> last.update.chat_id,
                            content |-> S_confirm_create])
        => /\ SubmitsDefaults
           /\ Cardinality(CreateCalls(last'.out))
                = IF PostRaises(last'.out[1].outcome)
                     \/ Strip(last.update.content) = EmptyStr
                  THEN 0 ELSE 1]_vars

\* C10 witness: a padded text has seeded a Draft with its trimmed text as
\* title and description.
C10_Witness ==
  /\ Texted
  /\ last.update.content = PaddedTitle
  /\ last.update.chat_id \in DOMAIN DRAFTS
  /\ DRAFTS[last.update.chat_id] = Seeded(S_FixLoginBug)

\* the text message handled in this step arrives while the conversation waits
\* for a title, and is no start command
Captures ==
  /\ last'.update.type = "message"
  /\ Strip(last'.update.content) \notin {S_start, S_new, S_task}
  /\ last'.update.chat_id \in DOMAIN DRAFTS
  /\ DRAFTS[last'.update.chat_id].awaiting_title

\* C11 as stated: in AwaitingTitle the next text that is no start command
\* becomes the title as sent, the awaiting flag is cleared, and project,
\* priority, due and description stay; no new Draft is seeded.
C11_CaptureEqualsText ==
  [][Captures
     => /\ last'.update.chat_id \in DOMAIN DRAFTS'
        /\ DRAFTS'[last'.update.chat_id]
             = [DRAFTS[last'.update.chat_id]
                  EXCEPT !.title = last'.update.content,
                         !.awaiting_title = FALSE]]_vars

\* C11 amended: the title becomes the text with the whitespace at both ends
\* removed; the rest as stated.
C11_CaptureEqualsStrippedText ==
  [][Captures
     => /\ last'.update.chat_id \in DOMAIN DRAFTS'
        /\ DRAFTS'[last'.update.chat_id]
             = [DRAFTS[last'.update.chat_id]
                  EXCEPT !.title = Strip(last'.update.content),
                         !.awaiting_title = FALSE]]_vars

\* C11 witness: a text has become the title of a Draft that keeps priority
\* High, due tomorrow, project ops and no description, so it was not seeded.
C11_Witness ==
  /\ Texted
  /\ last.update.content = PaddedTitle
  /\ last.update.chat_id \in DOMAIN DRAFTS
  /\ DRAFTS[last.update.chat_id].title = S_FixLoginBug
  /\ DRAFTS[last.update.chat_id].description = None
  /\ DRAFTS[last.update.chat_id].priority = 2
  /\ DRAFTS[last.update.chat_id].due = S_tomorrow
  /\ DRAFTS[last.update.chat_id].project = <<"o", "p", "s">>
  /\ ~DRAFTS[last.update.chat_id].awaiting_title

\* C12: the due timestamp of a create call is computed from the clock value t
\* read during the confirm-create press: no due field and no clock read for
\* None, (t + 8h) ms for today, (t + 1 day + 8h) ms for tomorrow, (t + 3 days)
\* ms for thisweek.  A set_due press reads no clock and stores the choice
\* itself in the Draft.
C12_DueFromSubmissionClock ==
  [][/\ (/\ last'.update.type = "callback_query"
         /\ last'.update.content = S_confirm_create
         /\ last'.update.chat_id \in DOMAIN DRAFTS)
        => \A i \in CreateCalls(last'.out) :
             LET choice == DRAFTS[last'.update.chat_id].due
                 p == last'.out[i].body.payload
             IN  IF choice = None
                 THEN "due_date" \notin DOMAIN p /\ last'.clock = {}
                 ELSE /\ Cardinality(last'.clock) = 1
                      /\ last'.clock \subseteq StartClock..(StartClock + MaxTicks)
                      /\ \A t \in last'.clock :
                           /\ choice = S_today
                              => p.due_date = {(t + 28800) * 1000}
                           /\ choice = S_tomorrow
                              => p.due_date = {(t + 86400 + 28800) * 1000}
                           /\ choice = S_thisweek
                              => p.due_date = {(t + 259200) * 1000}
     /\ (/\ last'.update.type = "callback_query"
         /\ StartsWith(last'.update.content, S_set_due)
         /\ Len(last'.out) = 2)
        => /\ last'.clock = {}
           /\ DRAFTS'[last'.update.chat_id].due
                = IF AfterColon(last'.update.content) = S_none THEN None
                  ELSE AfterColon(last'.update.content)]_vars

\* C12 witness: a Draft due this week was submitted when the clock had moved
\* on, and the call carries that later clock value plus three days.
C12_Witness ==
  /\ Pressed(S_confirm_create)
  /\ last.clock = {StartClock + 1}
  /\ \E i \in CreateCalls(last.out) :
       /\ "due_date" \in DOMAIN last.out[i].body.payload
       /\ last.out[i].body.payload.due_date
            = {(StartClock + 1 + 259200) * 1000}

\* C13: when the acknowledgement of a press fails, the rest of the handling
\* still takes place: the Draft is changed, submitted or removed and the
\* message is edited as after a successful acknowledgement.
C13_FailedAckDoesNotAbort ==
  (last.update.type = "callback_query" /\ last.out[1].outcome # "ok")
  => LET c == last.update.chat_id
         data == last.update.content
     IN  /\ data = S_cancel => c \notin DOMAIN DRAFTS /\ Len(last.out) = 2
         /\ data = S_ask_title
            => /\ c \in DOMAIN DRAFTS
               /\ DRAFTS[c].awaiting_title
               /\ Len(last.out) = 2
         /\ data = Concat(S_set_priority, <<"2">>)
            => /\ c \in DOMAIN DRAFTS
               /\ DRAFTS[c].priority = 2
               /\ Len(last.out) = 2
         /\ data = S_confirm_create => Len(last.out) >= 2

\* C15: after a cancel press, in any state of the conversation, there is no
\* Draft and no create-task call was made.
C15_CancelLeavesNoDraft ==
  Pressed(S_cancel)
  => /\ last.update.chat_id \notin DOMAIN DRAFTS
     /\ CreateCalls(last.out) = {}

\* C20: in every reachable state the priority label and the due label of a
\* Draft are the labels that PRIORITIES and DUE_CHOICES give for its rank and
\* its due choice, so the menu shows what a confirm-create press submits.
C20_LabelsMatchValues ==
  \A c \in DOMAIN DRAFTS :
    /\ \E i \in 1..Len(PRIORITIES) :
         PRIORITIES[i] = <<DRAFTS[c].priority_label, DRAFTS[c].priority>>
    /\ \E i \in 1..Len(DUE_CHOICES) :
         DUE_CHOICES[i] = <<DRAFTS[c].due_label, DRAFTS[c].due>>

\* C14 as stated: resolve returns the mapped list id when the key is present
\* and its lower-cased form is a configured key, the default list id otherwise.
C14_ResolveLowerCased ==
  last.called
  => LET k == last.project_key
     IN  last.list_id =
           IF Truthy(k) /\ InRouting(LIST_ROUTING, Lower(k))
           THEN RoutingGet(LIST_ROUTING, Lower(k))
           ELSE DEFAULT_LIST_ID

\* C14: resolve always returns a list id: the one mapped to the key with its
\* surrounding whitespace removed and then lower-cased, when the key is
\* present, non-empty and that form is a configured key; the default list
\* id in every other case.
C14_ResolveStrippedLowerCased ==
  last.called
  => LET k == last.project_key
         matches(c) == k # None /\ k # EmptyStr /\ c = Lower(Strip(k))
     IN  /\ \A i \in 1..Len(LIST_ROUTING) :
              matches(LIST_ROUTING[i][1]) => last.list_id = LIST_ROUTING[i][2]
         /\ (\A i \in 1..Len(LIST_ROUTING) : ~matches(LIST_ROUTING[i][1]))
            => last.list_id = DEFAULT_LIST_ID

C14_Witness ==
  /\ last.called
  /\ LIST_ROUTING = RoutingTwo
  /\ last.project_key = <<" ", "O", "P", "S", "\n">>
  /\ last.list_id = <<"9", "0", "1">>

\* C16: handling an update of one conversation leaves the Draft of every
\* other conversation as it was: none stays none, a Draft stays the same
\* Draft; and the store holds Drafts of conversations only, one per id.
C16_OtherDraftsUntouched ==
  [][/\ \A b \in TwoChats :
          b # last'.update.chat_id
          => /\ (b \in DOMAIN DRAFTS) <=> (b \in DOMAIN DRAFTS')
             /\ b \in DOMAIN DRAFTS => DRAFTS'[b] = DRAFTS[b]
     /\ DOMAIN DRAFTS' \subseteq TwoChats]_vars

C16_Witness ==
  /\ Pressed(S_cancel)
  /\ last.update.chat_id = 7
  /\ Len(last.out) = 2
  /\ 7 \notin DOMAIN DRAFTS
  /\ 8 \in DOMAIN DRAFTS
  /\ DRAFTS[8].title = S_FixLoginBug
  /\ DRAFTS[8].priority = 2

\* C17 as stated: a Draft appears only when a text message (start command
\* or other) is handled and disappears only on cancel or on a successful
\* create; a press for a conversation without a Draft leaves none; the wait
\* for a title starts only in a conversation that had a Draft.
C17_DraftLifecycle ==
  [][LET c == last'.update.chat_id
         Awaiting(D) == c \in DOMAIN D /\ D[c].awaiting_title
     IN  /\ DOMAIN DRAFTS' \ DOMAIN DRAFTS # {}
            => last'.update.type = "message"
         /\ DOMAIN DRAFTS \ DOMAIN DRAFTS' # {}
            => /\ last'.update.type = "callback_query"
               /\ \/ last'.update.content = S_cancel
                  \/ /\ last'.update.content = S_confirm_create
                     /\ \E i \in CreateCalls(last'.out) :
                          last'.out[i].outcome = "ok"
         /\ (last'.update.type = "callback_query" /\ c \notin DOMAIN DRAFTS)
            => c \notin DOMAIN DRAFTS'
         /\ (Awaiting(DRAFTS') /\ ~Awaiting(DRAFTS))
            => c \in DOMAIN DRAFTS]_vars

\* C17: a Draft appears only when a text message is handled or when a press
\* other than cancel is handled past its acknowledgement, and disappears
\* only on cancel or on a successful create; such a press for a conversation
\* without a Draft leaves the default Draft as the press changes it (waiting
\* for a title after edit-title, unchanged after confirm-create or an
\* unknown token); the wait for a title starts only with an edit-title press.
C17_DraftLifecycleWithPresses ==
  [][LET c == last'.update.chat_id
         data == last'.update.content
         Awaiting(D) == c \in DOMAIN D /\ D[c].awaiting_title
         Default == [title |-> EmptyStr, description |-> None,
                     project |-> S_default, priority |-> 3,
                     priority_label |-> S_Normal, due |-> None,
                     due_label |-> S_NoDueDate, awaiting_title |-> FALSE]
     IN  /\ DOMAIN DRAFTS' \ DOMAIN DRAFTS # {}
            => /\ DOMAIN DRAFTS' \ DOMAIN DRAFTS = {c}
               /\ \/ last'.update.type = "message"
                  \/ /\ last'.update.type = "callback_query"
                     /\ data # S_cancel
                     /\ ~PostRaises(last'.out[1].outcome)
         /\ DOMAIN DRAFTS \ DOMAIN DRAFTS' # {}
            => /\ DOMAIN DRAFTS \ DOMAIN DRAFTS' = {c}
               /\ last'.update.type = "callback_query"
               /\ \/ data = S_cancel
                  \/ /\ data = S_confirm_create
                     /\ \E i \in CreateCalls(last'.out) :
                          last'.out[i].outcome = "ok"
         /\ (/\ last'.update.type = "callback_query"
             /\ c \notin DOMAIN DRAFTS
             /\ ~PostRaises(last'.out[1].outcome)
             /\ data # S_cancel)
            => /\ c \in DOMAIN DRAFTS'
               /\ data = S_ask_title
                  => DRAFTS'[c] = [Default EXCEPT !.awaiting_title = TRUE]
               /\ data \in {S_confirm_create, <<"b", "o", "g", "u", "s">>}
                  => DRAFTS'[c] = Default
         /\ (Awaiting(DRAFTS') /\ ~Awaiting(DRAFTS))
            => last'.update.type = "callback_query" /\ data = S_ask_title]_vars

C17_Witness ==
  /\ Pressed(S_ask_title)
  /\ ~last.had
  /\ last.update.chat_id \in DOMAIN DRAFTS
  /\ DRAFTS[last.update.chat_id].awaiting_title
  /\ DRAFTS[last.update.chat_id].title = EmptyStr

\* C19: for any routing table, every token of the menu is one the handler
\* dispatches on; an acknowledged press of a menu button sets the Draft to the
\* value the button names; and a confirm-create on a Draft whose project is
\* the configured key K submits to the list mapped to K, one on a Draft whose
\* project is the value of the default-list button submits to the default
\* list.
C19_MenuRoundTrip ==
  [][LET c == last'.update.chat_id
         data == last'.update.content
         markup == menu_markup(DRAFTS, LIST_ROUTING, c).reply_markup
         keys == Prefix(RoutingKeys(LIST_ROUTING), 6)
         Dispatched(t) ==
           \/ t \in {S_ask_title, S_confirm_create, S_cancel}
           \/ StartsWith(t, S_set_project)
           \/ /\ StartsWith(t, S_set_priority)
              /\ IntParse(AfterColon(t)).ok
              /\ IntParse(AfterColon(t)).val \in 1..4
           \/ /\ StartsWith(t, S_set_due)
              /\ AfterColon(t) \in {S_none, S_today, S_tomorrow, S_thisweek}
     IN  (/\ last'.update.type = "callback_query"
          /\ \E j \in 1..Len(markup) : markup[j] = data
          /\ last'.out[1].outcome = "ok")
         => /\ \A j \in 1..Len(markup) : Dispatched(markup[j])
            /\ \A i \in 1..Len(keys) :
                 data = Concat(S_set_project, keys[i])
                 => DRAFTS'[c].project = keys[i]
            /\ data = Concat(S_set_project, S_default)
               => DRAFTS'[c].project = S_default
            /\ data = Concat(S_set_priority, <<"1">>)
               => DRAFTS'[c].priority = 1
            /\ data = Concat(S_set_due, S_today) => DRAFTS'[c].due = S_today
            /\ data = S_confirm_create
               => \A n \in CreateCalls(last'.out) :
                    /\ \A i \in 1..Len(keys) :
                         DRAFTS[c].project = keys[i]
                         => last'.out[n].body.list_id = LIST_ROUTING[i][2]
                    /\ DRAFTS[c].project = S_default
                       => last'.out[n].body.list_id = DEFAULT_LIST_ID]_vars

\* a handler waits inside the create-task call while another update of its
\* conversation has been delivered
Concurrent ==
  \E k \in 1..Len(waiting), i \in 1..Len(inbox) :
    inbox[i].chat_id = waiting[k].update.chat_id

\* an update is lost: the Draft that a waiting confirm-create has submitted is
\* no longer the Draft of its conversation, or two confirm-create handlers
\* wait inside the call at once
Race ==
  \/ Len(waiting) > 1
  \/ \E k \in 1..Len(waiting) :
       LET c == waiting[k].update.chat_id
       IN  c \notin DOMAIN DRAFTS \/ DRAFTS[c] # waiting[k].draft

====
